---- MODULE Spec2Model ----
(***************************************************************************)
(* A model of fast_bm25.BM25: the constructor with its IDF pruning,        *)
(* get_score, get_top_n, save and load.                                    *)
(*                                                                         *)
(* Python floats are modelled as fixed-point integers with Scale units per *)
(* 1.0 (1.5 is 1500); every float multiplication and division rounds, as   *)
(* the float operations do.  Python dicts are functions, Python lists are  *)
(* sequences (document index i of the code is position i + 1 of doc_len).  *)
(***************************************************************************)
EXTENDS Integers, Sequences, FiniteSets

\* ------------------------------------------------------------------ bounds
MaxDocs == 2
MaxQueryLen == 2
MaxN == 2

\* --------------------------------------------------------- float arithmetic
Scale == 10 * 10 * 10

ToFloat(i) == i * Scale

FMul(x, y) == (x * y) \div Scale

FDiv(x, y) == (x * Scale) \div y

\* math.log(m + 0.5), in fixed point, for the half-integers the code uses
LogTable == <<-693, 405, 916, 1253, 1504, 1705, 1872, 2015>>

LogHalf(m) == LogTable[m + 1]

\* ------------------------------------------------------- module constants
PARAM_K1 == 1500
PARAM_B == 750
IDF_CUTOFF == 3000

\* ------------------------------------------------------------------ inputs
Vocabulary == {"cat", "dog"}

QueryTerms == Vocabulary

SeqsUpTo(S, n) == UNION {[1..k -> S] : k \in 0..n}

\* the documents of the small corpora: empty, one word, a repeated word, two words
Documents == {<<>>, <<"cat">>, <<"dog">>, <<"cat", "cat">>, <<"cat", "dog">>}

SmallCorpora == SeqsUpTo(Documents, MaxDocs)

ExampleCorpus == << <<"the", "cat", "sat">>, <<"the", "dog", "ran">>, <<"cat", "cat", "ran">> >>

Corpora == SmallCorpora \cup {ExampleCorpus}

Alphas == {IDF_CUTOFF, 0, -10 * Scale}

Queries == SeqsUpTo(QueryTerms, MaxQueryLen)

\* the caller's documents list: opaque payloads, documents[i] is "doc" i
Payload(i) == 100 + i

DocumentsOfLen(len) == [j \in 1..len |-> Payload(j - 1)]

\* ------------------------------------------------------------------- dicts
EmptyDict == [x \in {} |-> 0]

Put(d, key, v) == [x \in (DOMAIN d) \cup {key} |-> IF x = key THEN v ELSE d[x]]

RECURSIVE SumSeq(_)
SumSeq(s) == IF s = <<>> THEN 0 ELSE Head(s) + SumSeq(Tail(s))

RECURSIVE SumValues(_)
SumValues(d) ==
    IF DOMAIN d = {} THEN 0
    ELSE LET key == CHOOSE x \in DOMAIN d : TRUE
         IN d[key] + SumValues([x \in (DOMAIN d) \ {key} |-> d[x]])

\* --------------------------------------------------------------- the state
VARIABLES corpus, pc, bm25, file, loaded, ret

vars == <<corpus, pc, bm25, file, loaded, ret>>

\* lines 46-53: the fields as __init__ sets them before it reads the corpus
NewBM25(k1, b, alpha) ==
    [k1 |-> k1, b |-> b, alpha |-> alpha, avgdl |-> 0,
     t2d |-> EmptyDict, idf |-> EmptyDict, doc_len |-> <<>>,
     average_idf |-> <<>>]

corpus_size(self) == Len(self.doc_len)

\* ------------------------------------------------------------- _initialize
\* lines 67-71: one occurrence of word in document i
CountWord(t2d, word, i) ==
    LET docs == IF word \in DOMAIN t2d THEN t2d[word] ELSE EmptyDict
        freq == IF i \in DOMAIN docs THEN docs[i] ELSE 0
    IN Put(t2d, word, Put(docs, i, freq + 1))

RECURSIVE CountDocument(_, _, _)
CountDocument(t2d, document, i) ==
    IF document = <<>> THEN t2d
    ELSE CountDocument(CountWord(t2d, Head(document), i), Tail(document), i)

\* lines 63-71: the loop over the corpus, from document k on
RECURSIVE CountCorpus(_, _, _)
CountCorpus(self, c, k) ==
    IF k > Len(c) THEN self
    ELSE CountCorpus([self EXCEPT !.doc_len = Append(@, Len(c[k])),
                                  !.t2d = CountDocument(@, c[k], k - 1)],
                     c, k + 1)

\* the two logarithms of line 76 exchanged
ComputeIdf_swapped(size, docs) ==
    LogHalf(Cardinality(DOMAIN docs)) - LogHalf(size - Cardinality(DOMAIN docs))

\* line 76
ComputeIdf(size, docs) ==
    LogHalf(size - Cardinality(DOMAIN docs)) - LogHalf(Cardinality(DOMAIN docs))

\* lines 78-81 without the comparison with alpha: every idf is stored
Kept_all(self) == DOMAIN self.t2d

\* lines 78-81: the words whose idf is stored
Kept(self) ==
    {word \in DOMAIN self.t2d : ComputeIdf(corpus_size(self), self.t2d[word]) > self.alpha}

\* lines 83-84 left out: the dropped words keep their postings
DeleteWords_none(t2d, to_delete) == t2d

\* lines 83-84
DeleteWords(t2d, to_delete) == [word \in (DOMAIN t2d) \ to_delete |-> t2d[word]]

\* lines 63-84: everything before the average_idf division
Populate(self, c) ==
    LET counted == CountCorpus(self, c, 1)
        withAvg == [counted EXCEPT
                      !.avgdl = FDiv(ToFloat(SumSeq(counted.doc_len)), ToFloat(Len(counted.doc_len)))]
        kept == Kept(withAvg)
    IN [withAvg EXCEPT
          !.idf = [word \in kept |-> ComputeIdf(corpus_size(withAvg), withAvg.t2d[word])],
          !.t2d = DeleteWords(@, (DOMAIN withAvg.t2d) \ kept)]

\* line 86
AverageIdf(self) == FDiv(SumValues(self.idf), ToFloat(Cardinality(DOMAIN self.idf)))

\* lines 54-55 and 61-94: the rest of __init__; line 86 divides by len(idf)
Initialize ==
    /\ pc = "init"
    /\ IF corpus = <<>>
       THEN /\ pc' = "ready"
            /\ UNCHANGED bm25
       ELSE LET self == Populate(bm25, corpus)
            IN IF DOMAIN self.idf = {}
               THEN /\ pc' = "ZeroDivisionError"
                    /\ bm25' = self
               ELSE /\ pc' = "ready"
                    /\ bm25' = [self EXCEPT !.average_idf = <<AverageIdf(self)>>]
    /\ UNCHANGED <<corpus, file, loaded, ret>>

\* --------------------------------------------------------------- get_score
Ok(v) == [err |-> "", value |-> v]

Raise(e) == [err |-> e, value |-> 0]

\* line 113; doc_len[index] and the division by avgdl are the places that can raise
DenominatorConstant(self, index) ==
    FMul(self.k1, ToFloat(1) - self.b + FDiv(self.b * self.doc_len[index + 1], self.avgdl))

\* lines 115-118 with a frequency of 1 assumed for a document without a posting
TokenScore_default_tf(self, token, index) ==
    IF token \in DOMAIN self.idf /\ token \in DOMAIN self.t2d
    THEN LET df == IF index \in DOMAIN self.t2d[token] THEN self.t2d[token][index] ELSE 1
             idf == self.idf[token]
         IN FDiv(FMul(idf * df, self.k1 + ToFloat(1)),
                 ToFloat(df) + DenominatorConstant(self, index))
    ELSE 0

\* lines 115-118: what one token of the query adds to the score
TokenScore(self, token, index) ==
    IF token \in DOMAIN self.t2d /\ index \in DOMAIN self.t2d[token]
    THEN LET df == self.t2d[token][index]
             idf == self.idf[token]
         IN FDiv(FMul(idf * df, self.k1 + ToFloat(1)),
                 ToFloat(df) + DenominatorConstant(self, index))
    ELSE 0

RECURSIVE ScoreLoop(_, _, _, _)
ScoreLoop(self, query, index, score) ==
    IF query = <<>> THEN score
    ELSE ScoreLoop(self, Tail(query), index, score + TokenScore(self, Head(query), index))

\* lines 115-118: the exception one token raises, "" when it raises none
TokenError(self, token, index) ==
    IF token \in DOMAIN self.t2d /\ index \in DOMAIN self.t2d[token]
    THEN IF token \notin DOMAIN self.idf THEN "KeyError"
         ELSE IF ToFloat(self.t2d[token][index]) + DenominatorConstant(self, index) = 0
              THEN "ZeroDivisionError"
              ELSE ""
    ELSE ""

\* lines 111-119
get_score(self, query, index) ==
    IF index + 1 > Len(self.doc_len) THEN Raise("IndexError")
    ELSE IF self.avgdl = 0 THEN Raise("ZeroDivisionError")
    ELSE LET bad == {k \in 1..Len(query) : TokenError(self, query[k], index) # ""}
         IN IF bad # {}
            THEN Raise(TokenError(self, query[CHOOSE k \in bad : \A j \in bad : k <= j], index))
            ELSE Ok(ScoreLoop(self, query, index, 0))

\* --------------------------------------------------------------- get_top_n
\* lines 140-145 replaced by a scan of the whole corpus
Candidates_all(self, query) == 0..(Len(self.doc_len) - 1)

\* lines 140-145
Candidates(self, query) ==
    UNION {DOMAIN self.t2d[query[k]] : k \in {j \in 1..Len(query) : query[j] \in DOMAIN self.t2d}}

\* heapq.nsmallest in the place of heapq.nlargest
RECURSIVE nlargest_ascending(_, _, _)
nlargest_ascending(n, indexes, key) ==
    IF n <= 0 \/ indexes = {} THEN <<>>
    ELSE LET best == CHOOSE i \in indexes :
                        \A j \in indexes : key[i] < key[j] \/ (key[j] = key[i] /\ i <= j)
         IN <<best>> \o nlargest_ascending(n - 1, indexes \ {best}, key)

\* heapq.nlargest(n, indexes, key): sorted(indexes, key=key, reverse=True)[:n];
\* the sort is stable, and a set of small ints is iterated in ascending order
RECURSIVE nlargest(_, _, _)
nlargest(n, indexes, key) ==
    IF n <= 0 \/ indexes = {} THEN <<>>
    ELSE LET best == CHOOSE i \in indexes :
                        \A j \in indexes : key[j] < key[i] \/ (key[j] = key[i] /\ i <= j)
         IN <<best>> \o nlargest(n - 1, indexes \ {best}, key)

\* line 146: score the indexes, keep the n largest, return their documents
Select(self, query, documents, n, indexes) ==
    LET scored == [idx \in indexes |-> get_score(self, query, idx)]
    IN IF \E idx \in indexes : scored[idx].err # ""
       THEN [err |-> (CHOOSE e \in {scored[idx].err : idx \in indexes} : e # ""),
             indexes |-> indexes, top |-> <<>>, value |-> <<>>]
       ELSE LET top == nlargest(n, indexes, [idx \in indexes |-> scored[idx].value])
            IN [err |-> "", indexes |-> indexes, top |-> top,
                value |-> [k \in 1..Len(top) |-> documents[top[k] + 1]]]

\* lines 139-146 without the assert: the candidates documents has no entry for are skipped
get_top_n_truncating(self, query, documents, n) ==
    Select(self, query, documents, n,
           {i \in Candidates(self, query) : i < Len(documents)})

\* lines 139-146
get_top_n(self, query, documents, n) ==
    IF corpus_size(self) # Len(documents)
    THEN [err |-> "AssertionError", indexes |-> {}, top |-> <<>>, value |-> <<>>]
    ELSE Select(self, query, documents, n, Candidates(self, query))

\* ------------------------------------------------------------ save and load
Digits == <<"0", "1", "2", "3", "4", "5", "6", "7", "8", "9">>

\* str(i) for a dict key, as json.dump writes it
RECURSIVE IntToStr(_)
IntToStr(i) ==
    IF i < 10 THEN <<Digits[i + 1]>>
    ELSE IntToStr(i \div 10) \o <<Digits[(i % 10) + 1]>>

\* int(s), line 162
RECURSIVE StrToInt(_)
StrToInt(s) ==
    IF Len(s) = 0 THEN 0
    ELSE 10 * StrToInt(SubSeq(s, 1, Len(s) - 1))
         + (CHOOSE d \in 0..9 : Digits[d + 1] = s[Len(s)])

\* a number as json.dump writes it and json.load reads it back
DumpNumber(v) == [neg |-> v < 0, digits |-> IntToStr(IF v < 0 THEN -v ELSE v)]

LoadNumber(t) == IF t.neg THEN -StrToInt(t.digits) ELSE StrToInt(t.digits)

\* the keys of a posting dict become strings in the file
DumpPostings(docs) ==
    [key \in {IntToStr(i) : i \in DOMAIN docs} |->
        DumpNumber(docs[CHOOSE i \in DOMAIN docs : IntToStr(i) = key])]

\* lines 149-154
save(self) ==
    [k1 |-> DumpNumber(self.k1), b |-> DumpNumber(self.b),
     alpha |-> DumpNumber(self.alpha), avgdl |-> DumpNumber(self.avgdl),
     t2d |-> [tok \in DOMAIN self.t2d |-> DumpPostings(self.t2d[tok])],
     idf |-> [tok \in DOMAIN self.idf |-> DumpNumber(self.idf[tok])],
     doc_len |-> [k \in 1..Len(self.doc_len) |-> DumpNumber(self.doc_len[k])]]

\* line 162 with the keys numbered by position instead of parsed
IntKeys_positions(docs) ==
    [i \in 0..(Cardinality(DOMAIN docs) - 1) |->
        LoadNumber(docs[CHOOSE key \in DOMAIN docs :
                          Cardinality({other \in DOMAIN docs : StrToInt(other) < StrToInt(key)}) = i])]

\* line 162
IntKeys(docs) ==
    [i \in {StrToInt(key) : key \in DOMAIN docs} |->
        LoadNumber(docs[CHOOSE key \in DOMAIN docs : StrToInt(key) = i])]

\* lines 158-171
load(json_object) ==
    [NewBM25(PARAM_K1, PARAM_B, IDF_CUTOFF) EXCEPT
        !.k1 = LoadNumber(json_object.k1),
        !.b = LoadNumber(json_object.b),
        !.alpha = LoadNumber(json_object.alpha),
        !.avgdl = LoadNumber(json_object.avgdl),
        !.t2d = [tok \in DOMAIN json_object.t2d |-> IntKeys(json_object.t2d[tok])],
        !.idf = [tok \in DOMAIN json_object.idf |-> LoadNumber(json_object.idf[tok])],
        !.doc_len = [k \in 1..Len(json_object.doc_len) |-> LoadNumber(json_object.doc_len[k])]]

\* ----------------------------------------------------------------- actions
NoCall ==
    [op |-> "none", obj |-> "bm25", query |-> <<>>, index |-> 0, documents |-> <<>>,
     n |-> 0, err |-> "", score |-> 0, indexes |-> {}, top |-> <<>>, result |-> <<>>]

\* the instances a caller holds: the constructed one and the one load returned
Objects == {"bm25", "loaded"}

\* a call starts when the instance exists and no other call is under way
Usable(obj) == ret.op = "none" /\ IF obj = "bm25" THEN pc = "ready" ELSE loaded.exists

Self(obj) == IF obj = "bm25" THEN bm25 ELSE loaded.self

\* get_score with self.t2d.setdefault(token, {}) for the lookup of line 115
GetScore_setdefault(obj, query, index) ==
    /\ Usable(obj)
    /\ LET r == get_score(Self(obj), query, index)
           t2d == [token \in (DOMAIN Self(obj).t2d) \cup {query[k] : k \in 1..Len(query)} |->
                      IF token \in DOMAIN Self(obj).t2d THEN Self(obj).t2d[token] ELSE EmptyDict]
       IN /\ ret' = [NoCall EXCEPT !.op = "get_score", !.obj = obj, !.query = query,
                                   !.index = index, !.err = r.err, !.score = r.value]
          /\ IF obj = "bm25"
             THEN bm25' = [bm25 EXCEPT !.t2d = t2d] /\ UNCHANGED loaded
             ELSE loaded' = [loaded EXCEPT !.self.t2d = t2d] /\ UNCHANGED bm25
    /\ UNCHANGED <<corpus, pc, file>>

GetScore(obj, query, index) ==
    /\ Usable(obj)
    /\ LET r == get_score(Self(obj), query, index)
       IN ret' = [NoCall EXCEPT !.op = "get_score", !.obj = obj, !.query = query,
                                !.index = index, !.err = r.err, !.score = r.value]
    /\ UNCHANGED <<corpus, pc, bm25, file, loaded>>

GetTopN(obj, query, documents, n) ==
    /\ Usable(obj)
    /\ LET r == get_top_n(Self(obj), query, documents, n)
       IN ret' = [NoCall EXCEPT !.op = "get_top_n", !.obj = obj, !.query = query,
                                !.documents = documents, !.n = n, !.err = r.err,
                                !.indexes = r.indexes, !.top = r.top, !.result = r.value]
    /\ UNCHANGED <<corpus, pc, bm25, file, loaded>>

Save(obj) ==
    /\ Usable(obj)
    /\ file' = [written |-> TRUE, json |-> save(Self(obj))]
    /\ ret' = [NoCall EXCEPT !.op = "save", !.obj = obj]
    /\ UNCHANGED <<corpus, pc, bm25, loaded>>

\* load of a file that save has written
Load ==
    /\ ret.op = "none"
    /\ file.written
    /\ loaded' = [exists |-> TRUE, self |-> load(file.json)]
    /\ ret' = [NoCall EXCEPT !.op = "load", !.obj = "loaded"]
    /\ UNCHANGED <<corpus, pc, bm25, file>>

\* the caller has taken the result of the call
Return ==
    /\ ret.op # "none"
    /\ ret' = NoCall
    /\ UNCHANGED <<corpus, pc, bm25, file, loaded>>

Init ==
    /\ corpus \in Corpora
    /\ pc = "init"
    /\ bm25 \in {NewBM25(PARAM_K1, PARAM_B, alpha) : alpha \in Alphas}
    /\ file = [written |-> FALSE, json |-> save(NewBM25(PARAM_K1, PARAM_B, IDF_CUTOFF))]
    /\ loaded = [exists |-> FALSE, self |-> NewBM25(PARAM_K1, PARAM_B, IDF_CUTOFF)]
    /\ ret = NoCall

\* the caller's arguments of get_top_n: a documents list of the corpus' length, one
\* entry short or one entry long
TopNLens == {len \in 0..(MaxDocs + 1) : len \in {Len(corpus) - 1, Len(corpus), Len(corpus) + 1}}

\* a program that constructs an index and queries it
Next ==
    \/ Initialize
    \/ \E query \in Queries, index \in 0..MaxDocs : GetScore("bm25", query, index)
    \/ \E query \in Queries, len \in TopNLens, n \in 0..MaxN :
          GetTopN("bm25", query, DocumentsOfLen(len), n)
    \/ Return

Spec == Init /\ [][Next]_vars

\* a program that constructs an index, saves and loads it, and then queries both the
\* constructed and the loaded instance, with the documents list of the corpus
NextPersist ==
    \/ Initialize
    \/ \E obj \in Objects : Save(obj)
    \/ Load
    \/ \E obj \in Objects, query \in Queries, index \in 0..MaxDocs :
          loaded.exists /\ GetScore(obj, query, index)
    \/ \E obj \in Objects, query \in Queries, n \in 0..MaxN :
          loaded.exists /\ GetTopN(obj, query, DocumentsOfLen(Len(corpus)), n)
    \/ Return

SpecPersist == Init /\ [][NextPersist]_vars

\* ------------------------------------------------------------------ claims
\* document i has a posting for some term of the query
HasPosting(self, query, i) ==
    \E k \in 1..Len(query) : query[k] \in DOMAIN self.t2d /\ i \in DOMAIN self.t2d[query[k]]

CandidateSet(self, query) == {i \in 0..(corpus_size(self) - 1) : HasPosting(self, query, i)}

ScoreOf(self, query, i) == get_score(self, query, i).value

Returned == {ret.top[k] : k \in 1..Len(ret.top)}

TopNDone == ret.op = "get_top_n" /\ ret.err = ""

\* C1: get_top_n returns documents in non-increasing score order, and no returned
\* document scores lower than a candidate that was left out.
C1_TopNIsTopByScore ==
    TopNDone =>
        LET self == Self(ret.obj)
        IN /\ \A k \in 1..Len(ret.result) : ret.result[k] = ret.documents[ret.top[k] + 1]
           /\ \A k \in 1..(Len(ret.top) - 1) :
                 ScoreOf(self, ret.query, ret.top[k]) >= ScoreOf(self, ret.query, ret.top[k + 1])
           /\ \A i \in Returned : \A j \in CandidateSet(self, ret.query) \ Returned :
                 ScoreOf(self, ret.query, i) >= ScoreOf(self, ret.query, j)

C1_Witness ==
    /\ TopNDone /\ ret.n >= 1 /\ Len(ret.result) = ret.n
    /\ \E j \in CandidateSet(Self(ret.obj), ret.query) \ Returned :
          ScoreOf(Self(ret.obj), ret.query, j) < ScoreOf(Self(ret.obj), ret.query, ret.top[1])

\* C2: the result of get_top_n has exactly min(n, number of candidates) entries, each
\* is documents[i] for a distinct candidate i < corpus_size, and a query without a
\* retained term gives the empty sequence.
C2_TopNLengthAndMembership ==
    TopNDone =>
        LET self == Self(ret.obj)
            cands == CandidateSet(self, ret.query)
        IN /\ Len(ret.result) <= ret.n
           /\ Len(ret.result) = IF ret.n <= Cardinality(cands) THEN ret.n ELSE Cardinality(cands)
           /\ Len(ret.top) = Len(ret.result)
           /\ \A k \in 1..Len(ret.result) :
                 /\ ret.top[k] \in cands
                 /\ ret.top[k] < corpus_size(self)
                 /\ ret.result[k] = ret.documents[ret.top[k] + 1]
           /\ \A k, m \in 1..Len(ret.top) : k # m => ret.top[k] # ret.top[m]
           /\ (\A k \in 1..Len(ret.query) : ret.query[k] \notin DOMAIN self.idf) => ret.result = <<>>

C2_Witness ==
    /\ TopNDone /\ ret.n = 2 /\ Len(ret.result) = 1
    /\ Cardinality(CandidateSet(Self(ret.obj), ret.query)) = 1

\* C3: get_top_n with len(documents) # corpus_size ends in the assertion error of line
\* 139: no candidate is collected, nothing is returned, the index stays as it was.
C3_MismatchIsFatal ==
    [][(ret'.op = "get_top_n" /\ Len(ret'.documents) # corpus_size(Self(ret'.obj)))
          => /\ ret'.err = "AssertionError"
             /\ ret'.indexes = {} /\ ret'.top = <<>> /\ ret'.result = <<>>
             /\ bm25' = bm25 /\ loaded' = loaded]_vars

C3_Witness ==
    /\ ret.op = "get_top_n" /\ ret.err = "AssertionError"
    /\ Len(ret.documents) < corpus_size(Self(ret.obj))
    /\ CandidateSet(Self(ret.obj), ret.query) # {}

\* the idf of a term as line 76 defines it, counted on the corpus itself
DocsWith(term) == {k \in 1..Len(corpus) : \E j \in 1..Len(corpus[k]) : corpus[k][j] = term}

CorpusTerms == UNION {{corpus[k][j] : j \in 1..Len(corpus[k])} : k \in 1..Len(corpus)}

CorpusIdf(term) ==
    LogHalf(Len(corpus) - Cardinality(DocsWith(term))) - LogHalf(Cardinality(DocsWith(term)))

PrunedTogether(self) ==
    /\ DOMAIN self.idf = DOMAIN self.t2d
    /\ \A term \in CorpusTerms :
          CorpusIdf(term) <= self.alpha => term \notin (DOMAIN self.idf) \cup (DOMAIN self.t2d)

\* C4: in a constructed index and in an index load returns, idf and t2d have the same
\* keys, and a term whose idf does not exceed alpha is a key of neither.
C4_PruningConsistency ==
    /\ pc = "ready" => PrunedTogether(bm25)
    /\ loaded.exists => PrunedTogether(loaded.self)

C4_Witness ==
    /\ pc = "ready" /\ loaded.exists
    /\ DOMAIN loaded.self.idf # {}
    /\ \E term \in CorpusTerms : term \notin DOMAIN bm25.t2d

\* C5: load(save(x)) has the k1, b, alpha, avgdl, doc_len, idf and t2d of x, the keys of
\* its postings are integers again, and it scores every query as x does.
C5_RoundTrip ==
    loaded.exists =>
        /\ loaded.self.k1 = bm25.k1 /\ loaded.self.b = bm25.b
        /\ loaded.self.alpha = bm25.alpha /\ loaded.self.avgdl = bm25.avgdl
        /\ loaded.self.doc_len = bm25.doc_len
        /\ loaded.self.idf = bm25.idf
        /\ DOMAIN loaded.self.t2d = DOMAIN bm25.t2d
        /\ \A tok \in DOMAIN bm25.t2d :
              /\ DOMAIN loaded.self.t2d[tok] \subseteq 0..(corpus_size(bm25) - 1)
              /\ loaded.self.t2d[tok] = bm25.t2d[tok]
        /\ (ret.op = "get_score" /\ ret.index < corpus_size(bm25)) =>
              /\ get_score(loaded.self, ret.query, ret.index) = get_score(bm25, ret.query, ret.index)
              /\ get_score(loaded.self, ret.query, ret.index) = [err |-> ret.err, value |-> ret.score]

C5_Witness ==
    /\ loaded.exists
    /\ \E tok \in DOMAIN loaded.self.t2d :
          /\ 1 \in DOMAIN loaded.self.t2d[tok]
          /\ loaded.self.idf[tok] < 0
    /\ ret.op = "get_score" /\ ret.obj = "loaded" /\ ret.index = 1 /\ ret.score # 0

\* C6: constructing an index from a non-empty corpus does not raise, also when alpha
\* prunes every term, and the index then scores 0.0 everywhere.
C6_ConstructionNeverRaises ==
    (pc # "init" /\ corpus # <<>>) =>
        /\ pc = "ready"
        /\ DOMAIN bm25.idf = {} =>
              \A query \in Queries : \A i \in 0..(corpus_size(bm25) - 1) :
                 get_score(bm25, query, i) = Ok(0)

\* C7: get_score does not fail for an in-range index, and it is 0.0 when no term of the
\* query has a posting at the index.
C7_ZeroScore ==
    (ret.op = "get_score" /\ ret.index < corpus_size(Self(ret.obj))) =>
        /\ ret.err = ""
        /\ ~HasPosting(Self(ret.obj), ret.query, ret.index) => ret.score = 0

C7_Witness ==
    /\ ret.op = "get_score" /\ ret.index < corpus_size(Self(ret.obj))
    /\ ~HasPosting(Self(ret.obj), ret.query, ret.index)
    /\ \E k \in 1..Len(ret.query) : ret.query[k] \in DOMAIN Self(ret.obj).idf
    /\ ret.score = 0

NoOutsiderBeatsResult ==
    LET self == Self(ret.obj)
    IN \A j \in (0..(corpus_size(self) - 1)) \ CandidateSet(self, ret.query) :
          \A i \in Returned : ~(ScoreOf(self, ret.query, j) > ScoreOf(self, ret.query, i))

\* C8 as stated: for any alpha, no document outside the candidate set scores strictly
\* higher than a document get_top_n returns.
C8_CandidatesEqualFullScan == TopNDone => NoOutsiderBeatsResult

\* C8 amended: when alpha >= 0, no document outside the candidate set scores strictly
\* higher than a document get_top_n returns.
C8_CandidatesEqualFullScanNonNegativeAlpha ==
    (TopNDone /\ Self(ret.obj).alpha >= 0) => NoOutsiderBeatsResult

C8_Witness ==
    /\ TopNDone /\ Self(ret.obj).alpha >= 0
    /\ Returned # {}
    /\ CandidateSet(Self(ret.obj), ret.query) # 0..(corpus_size(Self(ret.obj)) - 1)

OnExample ==
    /\ corpus = ExampleCorpus /\ ret.query = <<"cat">>
    /\ Self(ret.obj).k1 = PARAM_K1 /\ Self(ret.obj).b = PARAM_B
    /\ Self(ret.obj).alpha = -10 * Scale

\* C9 as stated: on the example corpus with alpha = -10 the query ["cat"] scores documents
\* 0 and 2 strictly positive and document 1 0.0, and get_top_n(["cat"], docs, 1) returns
\* document 2.
C9_ExamplePositive ==
    OnExample =>
        /\ (ret.op = "get_score" /\ ret.index \in {0, 2}) => (ret.err = "" /\ ret.score > 0)
        /\ (ret.op = "get_score" /\ ret.index = 1) => (ret.err = "" /\ ret.score = 0)
        /\ (TopNDone /\ ret.n = 1) => ret.result = <<ret.documents[3]>>

\* C9 amended: on the example corpus with alpha = -10 the query ["cat"] scores documents
\* 0 and 2 strictly negative, document 2 lower than document 0, and document 1 0.0, and
\* get_top_n(["cat"], docs, 1) returns document 0.
C9_ExampleNegative ==
    OnExample =>
        /\ (ret.op = "get_score" /\ ret.index \in {0, 2}) => (ret.err = "" /\ ret.score < 0)
        /\ (ret.op = "get_score" /\ ret.index = 1) => (ret.err = "" /\ ret.score = 0)
        /\ (ret.op \in {"get_score", "get_top_n"}) =>
              ScoreOf(Self(ret.obj), <<"cat">>, 2) < ScoreOf(Self(ret.obj), <<"cat">>, 0)
        /\ (TopNDone /\ ret.n = 1) => ret.result = <<ret.documents[1]>>

C9_Witness == OnExample /\ TopNDone /\ ret.n = 1 /\ ret.result = <<Payload(0)>>

\* the index as the constructor leaves it
FreshIndex ==
    IF corpus = <<>> THEN NewBM25(bm25.k1, bm25.b, bm25.alpha)
    ELSE Populate(NewBM25(bm25.k1, bm25.b, bm25.alpha), corpus)

====
